---- MODULE Spec2Model ----
(***************************************************************************)
(* A model of calendar_archiver.py: the month filter, the event hash, the  *)
(* per-day grouping, sorting and rendering, and the archive writer with    *)
(* its persisted day documents and per-month index.                        *)
(*                                                                         *)
(* Text is a sequence of one-character strings, so that concatenation and  *)
(* formatting are computed and not assumed.  A date/time value is a record *)
(* [kind, y, m, d, hh, mi, off]: kind "date" is a datetime.date, "naive" a *)
(* datetime without tzinfo, "aware" a datetime whose utcoffset is off      *)
(* minutes.  Seconds are always 0 in the modelled feeds.                   *)
(***************************************************************************)
EXTENDS Integers, Sequences, FiniteSets, TLC

VARIABLES
    all_events,       \* main: the parsed events of the downloaded feed
    year_months,      \* main: the (year, month) pairs still to archive
    pc,               \* position of the invocation
    target,           \* archive_month: <<target_year, target_month>>
    events,           \* save_daily_events: its argument, the filtered events
    existing_hashes,  \* save_daily_events: the index loaded at its start
    events_by_date,   \* save_daily_events: the groups, in dict insertion order
    gi,               \* save_daily_events: position of the for loop over the groups
    new_count,        \* save_daily_events: counter
    updated_count,    \* save_daily_events: counter
    docs,             \* the file tree: day -> the *_events.md file
    index,            \* the file tree: (year, month) -> the .metadata/*_events.json file
    total_events,     \* main: the running total
    runs,             \* number of invocations started
    docs0,            \* history: docs when the current save_daily_events call started
    prev,             \* history: per month, the save_daily_events call that last returned
    repeat,           \* history: the current call repeats the one before it
    log,              \* history: console lines of the current invocation
    calendar,         \* the components the upstream calendar is made of
    selection,        \* main: the (year, month) of the command line or .env file
    h_in,             \* get_event_hash harness: the pair of events
    h_out             \* get_event_hash harness: their hashes

vars == <<all_events, year_months, pc, target, events, existing_hashes,
          events_by_date, gi, new_count, updated_count, docs, index,
          total_events, runs, docs0, prev, repeat, log, calendar, selection, h_in, h_out>>

----------------------------------------------------------------------------
(* Bounds of the model *)

MaxEvents == 2
MaxRuns == 2

----------------------------------------------------------------------------
(* Text *)

Dig == <<"0", "1", "2", "3", "4", "5", "6", "7", "8", "9">>

\* {n:02d} and strftime's %H, %M, %d, %m
D2(n) == <<Dig[((n \div 10) % 10) + 1], Dig[(n % 10) + 1]>>

\* %Y and the year of str(date)
D4(n) == D2(n \div 100) \o D2(n % 100)

\* str(int) of an hour count below 100
IntStr(n) == IF n < 10 THEN <<Dig[n + 1]>> ELSE D2(n)

AllDayText == <<"A", "l", "l", " ", "d", "a", "y">>

Abs(n) == IF n < 0 THEN -n ELSE n

----------------------------------------------------------------------------
(* datetime.date and datetime.datetime *)

Date(y, m, d) ==
    [kind |-> "date", y |-> y, m |-> m, d |-> d, hh |-> 0, mi |-> 0, off |-> 0]

Naive(y, m, d, hh, mi) ==
    [kind |-> "naive", y |-> y, m |-> m, d |-> d, hh |-> hh, mi |-> mi, off |-> 0]

Aware(y, m, d, hh, mi, off) ==
    [kind |-> "aware", y |-> y, m |-> m, d |-> d, hh |-> hh, mi |-> mi, off |-> off]

\* hasattr(x, 'time') and hasattr(x, 'date'): true of a datetime, false of a date
hasattr_time(t) == t.kind \in {"naive", "aware"}

\* hasattr(x, 'strftime'): datetime.date defines strftime, and datetime inherits it
hasattr_strftime(t) == t.kind \in {"date", "naive", "aware"}

\* x.date() of a datetime, or the date itself: the calendar date as written
\* in the value (its own wall clock, no timezone conversion)
date_key(t) == <<t.y, t.m, t.d>>

IsLeap(y) == (y % 4 = 0 /\ y % 100 # 0) \/ y % 400 = 0

DaysInMonth(y, m) ==
    IF m = 2 THEN (IF IsLeap(y) THEN 29 ELSE 28)
    ELSE IF m \in {4, 6, 9, 11} THEN 30 ELSE 31

PrevDay(y, m, d) ==
    IF d > 1 THEN <<y, m, d - 1>>
    ELSE IF m > 1 THEN <<y, m - 1, DaysInMonth(y, m - 1)>>
    ELSE <<y - 1, 12, 31>>

NextDay(y, m, d) ==
    IF d < DaysInMonth(y, m) THEN <<y, m, d + 1>>
    ELSE IF m < 12 THEN <<y, m + 1, 1>>
    ELSE <<y + 1, 1, 1>>

\* str(date) is YYYY-MM-DD; str(datetime) is YYYY-MM-DD HH:MM:SS, followed by
\* the offset +HH:MM when the datetime is aware
py_str(t) ==
    LET ymd == D4(t.y) \o <<"-">> \o D2(t.m) \o <<"-">> \o D2(t.d)
        hms == <<" ">> \o D2(t.hh) \o <<":">> \o D2(t.mi) \o <<":", "0", "0">>
        tz  == <<(IF t.off < 0 THEN "-" ELSE "+")>> \o D2(Abs(t.off) \div 60)
                 \o <<":">> \o D2(Abs(t.off) % 60)
    IN  IF t.kind = "date" THEN ymd
        ELSE IF t.kind = "naive" THEN ymd \o hms
        ELSE ymd \o hms \o tz

\* str(end - start) of two datetimes on the same calendar date, end not
\* before start: H:MM:SS
timedelta_str(s, e) ==
    LET mins == (e.hh * 60 + e.mi - e.off) - (s.hh * 60 + s.mi - s.off)
    IN  IntStr(mins \div 60) \o <<":">> \o D2(mins % 60) \o <<":", "0", "0">>

\* x.strftime('%H:%M'); a date formats its absent time as 00:00
strftime_HM(t) == D2(t.hh) \o <<":">> \o D2(t.mi)

----------------------------------------------------------------------------
(* parse_ics_data: the event record built from a VEVENT component.  A raw  *)
(* component is [summary, dtstart, has_dtend, dtend, uid, location,         *)
(* description, attendee, created, last_modified]; an attendee is          *)
(* [mailto, addr], the property value being MAILTO:addr or addr.           *)

\* end_dt - start_dt raises TypeError for a datetime start with a date end,
\* and for a naive/aware mix; the component is then skipped as malformed
Malformed(raw) ==
    /\ hasattr_time(raw.dtstart)
    /\ raw.has_dtend
    /\ raw.dtend.kind # raw.dtstart.kind

\* str(att).replace('MAILTO:', '')
participant_of(att) == att.addr

parse_event(raw) ==
    LET start_dt == raw.dtstart
        end_dt   == IF raw.has_dtend THEN raw.dtend ELSE start_dt
    IN  [uid           |-> raw.uid,
         title         |-> raw.summary,
         start         |-> start_dt,
         end           |-> end_dt,
         duration      |-> IF hasattr_time(start_dt)
                           THEN timedelta_str(start_dt, end_dt)
                           ELSE AllDayText,
         location      |-> raw.location,
         description   |-> raw.description,
         participants  |-> [i \in 1..Len(raw.attendee) |->
                               participant_of(raw.attendee[i])],
         created       |-> raw.created,
         last_modified |-> raw.last_modified]

RECURSIVE parse_ics_data(_)
parse_ics_data(components) ==
    IF components = <<>> THEN <<>>
    ELSE LET rest == parse_ics_data(Tail(components))
         IN  IF Malformed(Head(components)) THEN rest
             ELSE <<parse_event(Head(components))>> \o rest

----------------------------------------------------------------------------
(* filter_events_by_month *)

InMonth(event, target_year, target_month) ==
    LET event_date == date_key(event.start)
    IN  event_date[1] = target_year /\ event_date[2] = target_month

\* a plausible slip: only the month is compared
filter_ignoring_year(evs, target_year, target_month) ==
    SelectSeq(evs, LAMBDA e : date_key(e.start)[2] = target_month)

filter_events_by_month(evs, target_year, target_month) ==
    SelectSeq(evs, LAMBDA e : InMonth(e, target_year, target_month))

----------------------------------------------------------------------------
(* get_event_hash *)

\* hashlib.md5(...).hexdigest(), taken as injective on its input
md5_hexdigest(data) == <<"md5">> \o data

event_data(event) ==
    event.title \o <<"|">> \o py_str(event.start) \o <<"|">> \o py_str(event.end)
        \o <<"|">> \o event.location \o <<"|">> \o event.description

get_event_hash(event) == md5_hexdigest(event_data(event))

----------------------------------------------------------------------------
(* save_daily_events: grouping, sorting, classification, rendering *)

\* the dict of a loaded index: a function from uids to hashes
EmptyDict == [u \in {} |-> <<>>]

\* a plausible slip: events_by_date[date_key] = [event] on every event
RECURSIVE group_into_replacing(_, _)
group_into_replacing(groups, evs) ==
    IF evs = <<>> THEN groups
    ELSE LET event == Head(evs)
             key   == date_key(event.start)
             at    == {i \in 1..Len(groups) : groups[i].date = key}
         IN  IF at = {}
             THEN group_into_replacing(
                      Append(groups, [date |-> key, events |-> <<event>>]), Tail(evs))
             ELSE LET i == CHOOSE j \in at : TRUE
                  IN  group_into_replacing([groups EXCEPT ![i].events = <<event>>],
                                           Tail(evs))

RECURSIVE group_into(_, _)
group_into(groups, evs) ==
    IF evs = <<>> THEN groups
    ELSE LET event == Head(evs)
             key   == date_key(event.start)
             at    == {i \in 1..Len(groups) : groups[i].date = key}
         IN  IF at = {}
             THEN group_into(Append(groups, [date |-> key, events |-> <<event>>]),
                             Tail(evs))
             ELSE LET i == CHOOSE j \in at : TRUE
                  IN  group_into([groups EXCEPT ![i].events = Append(@, event)],
                                 Tail(evs))

\* events_by_date after the grouping loop, in insertion order of its keys
group_by_date(evs) == group_into(<<>>, evs)

\* start.utctimetuple(): the wall clock minus the offset, on the day it falls
utc_fields(t) ==
    LET total == t.hh * 60 + t.mi - t.off
        day   == IF total < 0 THEN PrevDay(t.y, t.m, t.d)
                 ELSE IF total >= 1440 THEN NextDay(t.y, t.m, t.d)
                 ELSE <<t.y, t.m, t.d>>
        mins  == (total + 1440) % 1440
    IN  <<day[1], day[2], day[3], mins \div 60, mins % 60>>

\* The struct_time of get_sort_key as <<tm_year, tm_mon, tm_mday, tm_hour, tm_min,
\* tm_isdst>>: tm_sec is 0 here, and tm_wday and tm_yday, which come before
\* tm_isdst, are equal whenever the date fields are.  utctimetuple() sets
\* tm_isdst to 0; timetuple() of a naive datetime sets it to -1.
get_sort_key(event) ==
    LET start == event.start
    IN  IF hasattr_time(start)
        THEN IF start.kind = "aware"
             THEN utc_fields(start) \o <<0>>
             ELSE <<start.y, start.m, start.d, start.hh, start.mi, -1>>
        ELSE <<start.y, start.m, start.d, 0, 0, -1>>

\* tuple comparison a < b
RECURSIVE TupleLess(_, _)
TupleLess(a, b) ==
    IF a = <<>> \/ b = <<>> THEN a = <<>> /\ b # <<>>
    ELSE IF Head(a) # Head(b) THEN Head(a) < Head(b)
    ELSE TupleLess(Tail(a), Tail(b))

RECURSIVE insert_sorted(_, _)
insert_sorted(e, s) ==
    IF s = <<>> THEN <<e>>
    ELSE IF TupleLess(get_sort_key(e), get_sort_key(Head(s)))
         THEN <<e>> \o s
         ELSE <<Head(s)>> \o insert_sorted(e, Tail(s))

\* sorted(date_events, key=get_sort_key): stable
RECURSIVE sorted(_)
sorted(s) ==
    IF s = <<>> THEN <<>>
    ELSE insert_sorted(s[Len(s)], sorted(SubSeq(s, 1, Len(s) - 1)))

\* a plausible slip: a known uid is never reported as updated
classify_known_unchanged(event, existing) ==
    IF event.uid \in DOMAIN existing THEN "unchanged" ELSE "new"

\* the branch taken at lines 298-306
classify(event, existing) ==
    IF event.uid \in DOMAIN existing
    THEN IF existing[event.uid] # get_event_hash(event) THEN "updated" ELSE "unchanged"
    ELSE "new"

count_class(evs, existing, class) ==
    Cardinality({i \in 1..Len(evs) : classify(evs[i], existing) = class})

time_str(event) ==
    IF hasattr_strftime(event.start)
    THEN IF hasattr_strftime(event.end)
         THEN strftime_HM(event.start) \o <<" ", "-", " ">> \o strftime_HM(event.end)
         ELSE strftime_HM(event.start)
    ELSE AllDayText

DescLimit == 300

\* p.strip() is non-empty
NonBlank(p) == \E i \in 1..Len(p) : p[i] \notin {" ", "\t", "\n", "\r"}

RECURSIVE join(_)
join(ps) ==
    IF ps = <<>> THEN <<>>
    ELSE IF Len(ps) = 1 THEN ps[1]
    ELSE ps[1] \o <<",", " ">> \o join(Tail(ps))

clean_description(d) ==
    LET desc == [i \in 1..Len(d) |-> IF d[i] \in {"\n", "\r"} THEN " " ELSE d[i]]
    IN  IF Len(desc) > DescLimit
        THEN SubSeq(desc, 1, DescLimit) \o <<".", ".", ".">>
        ELSE desc

\* The section of one event.  A field whose line is optional is <<>> when the
\* line is omitted and <<text>> when it is written.
render_event(i, event) ==
    LET participants_clean == SelectSeq(event.participants, NonBlank)
    IN  [n            |-> i,
         title        |-> event.title,
         time         |-> time_str(event),
         duration     |-> event.duration,
         location     |-> IF event.location # <<>> THEN <<event.location>> ELSE <<>>,
         participants |-> IF participants_clean # <<>>
                          THEN <<join(participants_clean)>> ELSE <<>>,
         description  |-> IF event.description # <<>>
                          THEN <<clean_description(event.description)>> ELSE <<>>,
         uid          |-> event.uid]

\* markdown_content: the header (title line, date line, total) and one section
\* per sorted event
markdown_content(event_date, sorted_events) ==
    [head     |-> <<[date |-> event_date, total |-> Len(sorted_events)]>>,
     sections |-> [i \in 1..Len(sorted_events) |-> render_event(i, sorted_events[i])]]

\* {event['uid']: get_event_hash(event) for event in events}: a later event
\* with the same uid replaces the entry of an earlier one
new_index(evs) ==
    [u \in {evs[i].uid : i \in 1..Len(evs)} |->
        get_event_hash(evs[CHOOSE i \in 1..Len(evs) :
            evs[i].uid = u /\ \A j \in 1..Len(evs) : evs[j].uid = u => j <= i])]

----------------------------------------------------------------------------
(* get_all_event_months *)

\* a plausible slip: the months are taken latest first
RECURSIVE sorted_set_descending(_)
sorted_set_descending(S) ==
    IF S = {} THEN <<>>
    ELSE LET greatest == CHOOSE x \in S : \A y \in S : x = y \/ TupleLess(y, x)
         IN  <<greatest>> \o sorted_set_descending(S \ {greatest})

RECURSIVE sorted_set(_)
sorted_set(S) ==
    IF S = {} THEN <<>>
    ELSE LET least == CHOOSE x \in S : \A y \in S : x = y \/ TupleLess(x, y)
         IN  <<least>> \o sorted_set(S \ {least})

get_all_event_months(evs) ==
    sorted_set({<<date_key(evs[i].start)[1], date_key(evs[i].start)[2]>> :
                   i \in 1..Len(evs)})

----------------------------------------------------------------------------
(* The feeds of the model *)

Raw(uid, summary, dtstart, has_dtend, dtend) ==
    [uid |-> uid, summary |-> summary, dtstart |-> dtstart,
     has_dtend |-> has_dtend, dtend |-> dtend,
     location |-> <<>>, description |-> <<>>,
     attendee |-> <<[mailto |-> TRUE, addr |-> <<"a", "@", "b">>]>>,
     created |-> <<>>, last_modified |-> <<>>]

\* The components of the modelled feeds: a meeting; an all-day event of the
\* day before under the same uid (the meeting edited); a meeting of that day
\* given with a UTC offset, at the UTC midnight the all-day event sorts at;
\* an event of the next month; the meeting of a year before.
Meeting == Raw(<<"u", "1">>, <<"A">>, Naive(2025, 8, 6, 9, 0), TRUE, Naive(2025, 8, 6, 10, 0))

AllDay == Raw(<<"u", "1">>, <<"B">>, Date(2025, 8, 5), FALSE, Date(2025, 8, 5))

Offset ==
    Raw(<<"u", "2">>, <<"C">>, Aware(2025, 8, 5, 2, 0, 120), TRUE, Aware(2025, 8, 5, 3, 0, 120))

NextMonth ==
    Raw(<<"u", "2">>, <<"S">>, Naive(2025, 9, 1, 8, 30), FALSE, Naive(2025, 9, 1, 8, 30))

LastYear ==
    Raw(<<"u", "3">>, <<"A">>, Naive(2024, 8, 6, 9, 0), TRUE, Naive(2024, 8, 6, 10, 0))

RawPool == {Meeting, AllDay, Offset, NextMonth, LastYear}

\* The upstream calendars: one behaviour downloads feeds made of two components
Calendars ==
    { {Meeting, AllDay}, {Meeting, Offset}, {Meeting, NextMonth}, {AllDay, Offset},
      {AllDay, NextMonth}, {Offset, NextMonth}, {Meeting, LastYear} }

\* The feeds a download of the calendar can return: any of its components, in
\* any order and multiplicity
Feeds(c) == UNION {[1..n -> c] : n \in 0..MaxEvents}

\* The selections of main: an explicit (year, month), or all months of a year
\* (month 0 stands for target_month = None).  An installation keeps its
\* selection from one invocation to the next.
Selections == {[year |-> 2025, month |-> 8], [year |-> 2025, month |-> 0]}

Days == {date_key(r.dtstart) : r \in RawPool}

Months == {<<d[1], d[2]>> : d \in Days}

DaysOf(ym) == {d \in Days : d[1] = ym[1] /\ d[2] = ym[2]}

----------------------------------------------------------------------------
(* The file tree *)

NoFile == [exists |-> FALSE, head |-> <<>>, sections |-> <<>>]

\* a file holding the whole of content
FileOf(content) == [exists |-> TRUE, head |-> content.head, sections |-> content.sections]

\* open(file_path, 'w') truncated the file and f.write raised: the file holds
\* nothing, or (flushed) the content short of its last section
Truncated(content, flushed) ==
    IF flushed
    THEN [exists |-> TRUE, head |-> content.head,
          sections |-> SubSeq(content.sections, 1, Len(content.sections) - 1)]
    ELSE [exists |-> TRUE, head |-> <<>>, sections |-> <<>>]

NoIndex == [exists |-> FALSE, valid |-> FALSE, dict |-> EmptyDict]

CorruptIndex == [exists |-> TRUE, valid |-> FALSE, dict |-> EmptyDict]

\* lines 220-227: the dict of the index file, or {} when the file is absent
\* or json.load raises
load_index(file) == IF file.exists /\ file.valid THEN file.dict ELSE EmptyDict

\* no save_daily_events call for the month has returned since the tree was
\* empty or since a call for the month was cut short
NoCall == [valid |-> FALSE, events |-> <<>>, index_saved |-> FALSE]

NoRepeat == [same |-> FALSE, saved |-> FALSE]

----------------------------------------------------------------------------
(* The archiver *)

InitArchive ==
    /\ all_events = <<>>
    /\ year_months = <<>>
    /\ pc = "idle"
    /\ target = <<0, 0>>
    /\ events = <<>>
    /\ existing_hashes = EmptyDict
    /\ events_by_date = <<>>
    /\ gi = 0
    /\ new_count = 0
    /\ updated_count = 0
    /\ docs = [d \in Days |-> NoFile]
    /\ index = [ym \in Months |-> NoIndex]
    /\ total_events = 0
    /\ runs = 0
    /\ docs0 = [d \in Days |-> NoFile]
    /\ prev = [ym \in Months |-> NoCall]
    /\ repeat = NoRepeat
    /\ log = <<>>

Init ==
    /\ InitArchive
    /\ calendar \in Calendars
    /\ selection \in Selections
    /\ h_in = <<>>
    /\ h_out = <<>>

call_vars == <<target, events, existing_hashes, events_by_date, gi, new_count,
               updated_count, docs0, repeat>>

\* main, lines 393-450, in a new process (no local of an earlier invocation
\* exists): download and parse once, resolve the months
Main(feed) ==
    /\ pc \in {"idle", "complete", "crashed", "exit"}
    /\ runs < MaxRuns
    /\ runs' = runs + 1
    /\ all_events' = parse_ics_data(feed)
    /\ total_events' = 0
    /\ log' = <<>>
    /\ IF selection.month # 0
       THEN /\ year_months' = <<<<selection.year, selection.month>>>>
            /\ pc' = "archive"
       ELSE LET available_months == get_all_event_months(all_events')
                found == SelectSeq(available_months, LAMBDA ym : ym[1] = selection.year)
            IN  /\ year_months' = found
                /\ pc' = IF found = <<>> THEN "exit" ELSE "archive"
    /\ target' = <<0, 0>>
    /\ events' = <<>>
    /\ existing_hashes' = EmptyDict
    /\ events_by_date' = <<>>
    /\ gi' = 0
    /\ new_count' = 0
    /\ updated_count' = 0
    /\ docs0' = docs
    /\ repeat' = NoRepeat
    /\ UNCHANGED <<docs, index, prev, calendar, selection, h_in, h_out>>

\* archive_month, lines 361-375: no event of the month, return 0
ArchiveMonthEmpty ==
    /\ pc = "archive"
    /\ year_months # <<>>
    /\ LET ym == Head(year_months)
       IN  /\ filter_events_by_month(all_events, ym[1], ym[2]) = <<>>
           /\ log' = Append(log, [what |-> "none", key |-> ym])
    /\ year_months' = Tail(year_months)
    /\ UNCHANGED <<all_events, pc, call_vars, docs, index, total_events, runs,
                   prev, calendar, selection, h_in, h_out>>

\* archive_month, lines 361-378, and save_daily_events, lines 210-243: filter,
\* load the index, group by date
ArchiveMonthBegin ==
    /\ pc = "archive"
    /\ year_months # <<>>
    /\ LET ym == Head(year_months)
           filtered_events == filter_events_by_month(all_events, ym[1], ym[2])
       IN  /\ filtered_events # <<>>
           /\ target' = ym
           /\ events' = filtered_events
           /\ existing_hashes' = load_index(index[ym])
           /\ events_by_date' = group_by_date(filtered_events)
           /\ repeat' = [same  |-> prev[ym].valid /\ prev[ym].events = filtered_events,
                          saved |-> prev[ym].index_saved]
    /\ gi' = 1
    /\ new_count' = 0
    /\ updated_count' = 0
    /\ docs0' = docs
    /\ pc' = "days"
    /\ UNCHANGED <<all_events, year_months, docs, index, total_events, runs,
                   prev, log, calendar, selection, h_in, h_out>>

\* the uncaught exception of a day's write ends the process
Crash ==
    /\ pc' = "crashed"
    /\ prev' = [prev EXCEPT ![target] = NoCall]

\* one iteration of the loop of lines 246-349, the file written
ProcessDay ==
    /\ pc = "days"
    /\ LET group         == events_by_date[gi]
           sorted_events == sorted(group.events)
       IN  /\ new_count' = new_count + count_class(sorted_events, existing_hashes, "new")
           /\ updated_count' =
                  updated_count + count_class(sorted_events, existing_hashes, "updated")
           /\ docs' = [docs EXCEPT ![group.date] =
                           FileOf(markdown_content(group.date, sorted_events))]
           /\ log' = Append(log, [what |-> "saved", key |-> group.date])
    /\ gi' = gi + 1
    /\ pc' = IF gi = Len(events_by_date) THEN "meta" ELSE "days"
    /\ UNCHANGED <<all_events, year_months, target, events, existing_hashes,
                   events_by_date, docs0, repeat, index, total_events, runs, prev,
                   calendar, selection, h_in, h_out>>

\* one iteration, os.makedirs or open(file_path, 'w') raising OSError: nothing
\* is written, and nothing catches the exception
ProcessDayOpenFails ==
    /\ pc = "days"
    /\ Crash
    /\ log' = Append(log, [what |-> "failed", key |-> events_by_date[gi].date])
    /\ UNCHANGED <<all_events, year_months, call_vars, docs, index, total_events,
                   runs, calendar, selection, h_in, h_out>>

\* one iteration, f.write raising OSError after open truncated the file
ProcessDayWriteFails ==
    /\ pc = "days"
    /\ Crash
    /\ LET group   == events_by_date[gi]
           content == markdown_content(group.date, sorted(group.events))
       IN  /\ \E flushed \in BOOLEAN :
                  docs' = [docs EXCEPT ![group.date] = Truncated(content, flushed)]
           /\ log' = Append(log, [what |-> "failed", key |-> group.date])
    /\ UNCHANGED <<all_events, year_months, call_vars, index, total_events,
                   runs, calendar, selection, h_in, h_out>>

\* lines 351-359 and the return to main: the index written, or the warning
Return(saved) ==
    /\ prev' = [prev EXCEPT ![target] =
                   [valid |-> TRUE, events |-> events, index_saved |-> saved]]
    /\ log' = Append(log, [what |-> IF saved THEN "metadata" ELSE "warning",
                           key |-> target])
    /\ total_events' = total_events + Len(events)
    /\ year_months' = Tail(year_months)
    /\ pc' = "archive"
    /\ UNCHANGED <<all_events, call_vars, docs, runs, calendar, selection, h_in, h_out>>

SaveMetadata ==
    /\ pc = "meta"
    /\ index' = [index EXCEPT ![target] =
                    [exists |-> TRUE, valid |-> TRUE, dict |-> new_index(events)]]
    /\ Return(TRUE)

\* open(metadata_file, 'w') or json.dump raising: the file is as it was, or
\* truncated; the exception is caught
SaveMetadataFails ==
    /\ pc = "meta"
    /\ \/ UNCHANGED index
       \/ index' = [index EXCEPT ![target] = CorruptIndex]
    /\ Return(FALSE)

\* main, lines 491-493
Complete ==
    /\ pc = "archive"
    /\ year_months = <<>>
    /\ pc' = "complete"
    /\ UNCHANGED <<all_events, year_months, call_vars, docs, index, total_events,
                   runs, prev, log, calendar, selection, h_in, h_out>>

Next ==
    \/ \E feed \in Feeds(calendar) : Main(feed)
    \/ ArchiveMonthEmpty
    \/ ArchiveMonthBegin
    \/ ProcessDay
    \/ ProcessDayOpenFails
    \/ ProcessDayWriteFails
    \/ SaveMetadata
    \/ SaveMetadataFails
    \/ Complete

Spec == Init /\ [][Next]_vars

----------------------------------------------------------------------------
(* get_event_hash applied to pairs of events *)

HashedEvent(title, start, location, description, other) ==
    [uid           |-> IF other THEN <<"u", "2">> ELSE <<"u", "1">>,
     title         |-> title,
     start         |-> start,
     end           |-> start,
     duration      |-> IF other THEN AllDayText ELSE <<"0", ":", "0", "0", ":", "0", "0">>,
     location      |-> location,
     description   |-> description,
     participants  |-> IF other THEN <<>> ELSE <<<<"a", "@", "b">>>>,
     created       |-> IF other THEN <<"2">> ELSE <<"1">>,
     last_modified |-> IF other THEN <<"2">> ELSE <<"1">>]

HashedEvents ==
    { HashedEvent(title, start, location, description, other) :
        title \in {<<"A">>, <<"B">>},
        start \in {Date(2025, 8, 5), Naive(2025, 8, 5, 0, 0)},
        location \in {<<>>, <<"x">>, <<"x", "|", "y">>},
        description \in {<<>>, <<"y">>, <<"y", "|">>},
        other \in BOOLEAN }

InitHash ==
    /\ InitArchive
    /\ calendar = {}
    /\ selection = [year |-> 0, month |-> 0]
    /\ h_in \in HashedEvents \X HashedEvents
    /\ h_out = <<>>

HashPair ==
    /\ h_out = <<>>
    /\ h_out' = <<get_event_hash(h_in[1]), get_event_hash(h_in[2])>>
    /\ UNCHANGED <<all_events, year_months, pc, call_vars, docs, index, total_events,
                   runs, prev, log, calendar, selection, h_in>>

SpecHash == InitHash /\ [][HashPair]_vars

----------------------------------------------------------------------------
(* Properties *)

Uids(evs) == {evs[i].uid : i \in 1..Len(evs)}

OnDay(evs, d) == SelectSeq(evs, LAMBDA e : date_key(e.start) = d)

\* a section is the rendering of this event
Renders(section, event) == section.uid = event.uid /\ section.title = event.title

\* the file holds a whole document
WholeDocument(file) ==
    /\ file.exists
    /\ Len(file.head) = 1
    /\ Len(file.sections) = file.head[1].total

\* the save_daily_events call of the locals has returned and nothing was
\* written since
Returned == pc \in {"archive", "complete"} /\ events # <<>>

\* C1: a call that repeats, on the same events, the previous call of the
\* month (which returned and wrote its index) counts no event new and no
\* event updated and leaves every day document as it was.
C1_Idempotent ==
    (Returned /\ repeat.same /\ repeat.saved) =>
        /\ new_count = 0
        /\ updated_count = 0
        /\ \A d \in Days : docs[d] = docs0[d]

\* C2 (as amended): when save_daily_events returns, the document of every day
\* that has events in the call holds exactly those events, one section per
\* occurrence in the feed, and the document of every other day is as it was
\* before the call; what an earlier run rendered into a rewritten document is
\* kept only if it is among the events of the call.
C2_DocumentsHoldTheCallsEvents ==
    Returned =>
        \A d \in Days :
            LET today == OnDay(events, d)
            IN  IF today = <<>> THEN docs[d] = docs0[d]
                ELSE /\ WholeDocument(docs[d])
                     /\ Len(docs[d].sections) = Len(today)
                     /\ \A i \in 1..Len(today) :
                            Cardinality({j \in 1..Len(docs[d].sections) :
                                            Renders(docs[d].sections[j], today[i])})
                            = Cardinality({j \in 1..Len(today) :
                                            /\ today[j].uid = today[i].uid
                                            /\ today[j].title = today[i].title})

C2_Witness ==
    /\ Returned
    /\ \E d \in Days :
           /\ OnDay(events, d) # <<>>
           /\ \E i \in 1..Len(docs0[d].sections) :
                  docs0[d].sections[i].uid \notin Uids(events)

\* C2 (as claimed): every event rendered in the tree before the call is
\* rendered in the tree after it, and no day document renders an event twice.
C2_NoLossNoDuplicate ==
    Returned =>
        /\ \A d \in Days : \A i \in 1..Len(docs0[d].sections) :
               \E d2 \in Days : \E j \in 1..Len(docs[d2].sections) :
                   docs[d2].sections[j].uid = docs0[d].sections[i].uid
        /\ \A d \in Days : \A i, j \in 1..Len(docs[d].sections) :
               i # j => docs[d].sections[i].uid # docs[d].sections[j].uid

\* C3: the index a call classifies against is the one the index file held
\* when the call started (empty when absent or unreadable); the reported
\* counts are the numbers of events whose uid is absent from it (new) and
\* whose uid is present with another hash (updated); every event of the call
\* is rendered in the document of its day.
C3_Classification ==
    /\ (pc = "days" /\ gi = 1) =>
           existing_hashes = IF index[target].exists /\ index[target].valid
                             THEN index[target].dict ELSE EmptyDict
    /\ Returned =>
           /\ new_count = Cardinality({i \in 1..Len(events) :
                               events[i].uid \notin DOMAIN existing_hashes})
           /\ updated_count = Cardinality({i \in 1..Len(events) :
                               /\ events[i].uid \in DOMAIN existing_hashes
                               /\ existing_hashes[events[i].uid] # get_event_hash(events[i])})
           /\ \A i \in 1..Len(events) :
                  \E j \in 1..Len(docs[date_key(events[i].start)].sections) :
                      Renders(docs[date_key(events[i].start)].sections[j], events[i])

C3_Witness ==
    /\ Returned
    /\ updated_count > 0
    /\ \E i \in 1..Len(events) :
           /\ events[i].uid \in DOMAIN existing_hashes
           /\ existing_hashes[events[i].uid] = get_event_hash(events[i])

\* C4: after a call that wrote its index, the index file of the month maps
\* exactly the uids of the call's events, every event's uid to that event's
\* hash; a uid of the index loaded at the start that is not among the call's
\* events has no entry.
C4_IndexMapsEveryEvent ==
    (Returned /\ prev[target].index_saved) =>
        /\ DOMAIN index[target].dict = Uids(events)
        /\ \A i \in 1..Len(events) :
               index[target].dict[events[i].uid] = get_event_hash(events[i])
        /\ \A u \in DOMAIN existing_hashes :
               u \notin Uids(events) => u \notin DOMAIN index[target].dict

\* C5: the events save_daily_events is called with are the events of the feed
\* whose start date is in the target year and month, in feed order; every one
\* of them is in the group of its start date and in no other; the groups hold
\* nothing else.
C5_Partition ==
    pc \in {"days", "meta"} =>
        /\ \A i \in 1..Len(events) :
               /\ date_key(events[i].start)[1] = target[1]
               /\ date_key(events[i].start)[2] = target[2]
        /\ \E f \in [1..Len(events) -> 1..Len(all_events)] :
               /\ \A i, j \in 1..Len(events) : i < j => f[i] < f[j]
               /\ \A i \in 1..Len(events) : events[i] = all_events[f[i]]
               /\ \A k \in 1..Len(all_events) :
                      (\A i \in 1..Len(events) : f[i] # k) =>
                          ~(/\ date_key(all_events[k].start)[1] = target[1]
                            /\ date_key(all_events[k].start)[2] = target[2])
        /\ \A g, h \in 1..Len(events_by_date) :
               g # h => events_by_date[g].date # events_by_date[h].date
        /\ \A g \in 1..Len(events_by_date) :
               events_by_date[g].events = OnDay(events, events_by_date[g].date)
        /\ \A i \in 1..Len(events) :
               \E g \in 1..Len(events_by_date) :
                   events_by_date[g].date = date_key(events[i].start)

C5_Witness ==
    /\ pc = "days"
    /\ Len(all_events) = 2
    /\ Len(events) = 1

FieldsDiffer(e1, e2) ==
    \/ e1.title # e2.title
    \/ e1.start # e2.start
    \/ e1.end # e2.end
    \/ e1.location # e2.location
    \/ e1.description # e2.description

\* C6: the hashes of two events differ if and only if the events differ in
\* title, start, end, location or description.
C6_HashSensitivity ==
    h_out # <<>> => ((h_out[1] # h_out[2]) <=> FieldsDiffer(h_in[1], h_in[2]))

\* C7: a failed write of a day document does not end the run: the remaining
\* days are processed and the index of the month is written.
C7_DayWriteFailureIsLocal ==
    (\E i \in 1..Len(log) : log[i].what = "failed") =>
        /\ pc # "crashed"
        /\ pc = "complete" =>
               /\ \A g \in 1..Len(events_by_date) :
                      \E i \in 1..Len(log) :
                          /\ log[i].what \in {"saved", "failed"}
                          /\ log[i].key = events_by_date[g].date
               /\ \E i \in 1..Len(log) : log[i].what \in {"metadata", "warning"}

\* C8: between invocations every day document of the tree is a whole
\* document: none is empty or cut short.
C8_AllOrNothing ==
    pc \in {"idle", "complete", "crashed", "exit"} =>
        \A d \in Days : docs[d].exists => WholeDocument(docs[d])

\* C9: in a document just written, the section of an event whose start is a
\* date has Time "All day" and Duration "All day", and the section of an
\* event whose start is a datetime has Time "HH:MM - HH:MM".
C9_AllDayRendering ==
    pc \in {"days", "meta"} =>
        \A g \in 1..(gi - 1) :
            LET group == events_by_date[g]
                doc   == docs[group.date]
            IN  \A i \in 1..Len(group.events) : \A j \in 1..Len(doc.sections) :
                    Renders(doc.sections[j], group.events[i]) =>
                        IF group.events[i].start.kind = "date"
                        THEN /\ doc.sections[j].time = AllDayText
                             /\ doc.sections[j].duration = AllDayText
                        ELSE doc.sections[j].time =
                                 D2(group.events[i].start.hh) \o <<":">>
                                 \o D2(group.events[i].start.mi) \o <<" ", "-", " ">>
                                 \o D2(group.events[i].end.hh) \o <<":">>
                                 \o D2(group.events[i].end.mi)

\* the normalized start instant: an aware start in UTC, a naive one as it is,
\* a date at its midnight
NormInstant(event) ==
    IF event.start.kind = "aware" THEN utc_fields(event.start)
    ELSE <<event.start.y, event.start.m, event.start.d, event.start.hh, event.start.mi>>

\* C10: a document just written renders the events of its group in ascending
\* order of normalized start instant, two events with the same instant in
\* their order in the feed.
C10_SortedStable ==
    pc \in {"days", "meta"} =>
        \A g \in 1..(gi - 1) :
            LET in  == events_by_date[g].events
                out == docs[events_by_date[g].date].sections
                n   == Len(in)
            IN  /\ Len(out) = n
                /\ \E pi \in [1..n -> 1..n] :
                       /\ \A i \in 1..n : out[pi[i]] = render_event(pi[i], in[i])
                       /\ \A i, j \in 1..n :
                              i < j =>
                                  IF TupleLess(NormInstant(in[j]), NormInstant(in[i]))
                                  THEN pi[j] < pi[i]
                                  ELSE pi[i] < pi[j]

\* the (year, month) a console line is about
MonthOf(line) ==
    IF line.what \in {"saved", "failed"} THEN <<line.key[1], line.key[2]>> ELSE line.key

\* the position in the feed of the first event that starts on day d
FirstAt(d) ==
    CHOOSE k \in 1..Len(all_events) :
        /\ date_key(all_events[k].start) = d
        /\ \A h \in 1..(k - 1) : date_key(all_events[h].start) # d

\* the months of one invocation are archived in ascending order, one after
\* the other, and the index of a month is written only after every day group
\* of the month was processed
MonthsInOrder ==
    /\ \A i, j \in 1..Len(log) :
           i < j =>
               /\ ~TupleLess(MonthOf(log[j]), MonthOf(log[i]))
               /\ log[i].what \in {"metadata", "warning", "none"} =>
                      TupleLess(MonthOf(log[i]), MonthOf(log[j]))
    /\ \A i \in 1..Len(log) :
           log[i].what \in {"metadata", "warning"} =>
               \A k \in 1..Len(all_events) :
                   LET d == date_key(all_events[k].start)
                   IN  <<d[1], d[2]>> = log[i].key =>
                           \E h \in 1..(i - 1) : log[h] = [what |-> "saved", key |-> d]

\* C11 (as amended): in one invocation the months are archived in ascending
\* (year, month) order, one after the other; within a month the day groups
\* are processed in the order in which their dates first appear in the feed,
\* each once; the index of the month is written only after every day group
\* of the month was processed.
C11_FeedOrderOfDays ==
    /\ MonthsInOrder
    /\ \A i, j \in 1..Len(log) :
           (/\ i < j
            /\ log[i].what \in {"saved", "failed"}
            /\ log[j].what \in {"saved", "failed"}
            /\ MonthOf(log[i]) = MonthOf(log[j])) =>
               FirstAt(log[i].key) < FirstAt(log[j].key)

C11_Witness ==
    /\ pc = "complete"
    /\ selection.month = 0
    /\ \E i, j \in 1..Len(log) :
           /\ i < j
           /\ log[i].what = "saved"
           /\ log[j].what = "saved"
           /\ TupleLess(log[j].key, log[i].key)
    /\ log[Len(log)].what = "metadata"

\* C11 (as claimed): the months are archived in ascending order, one after
\* the other; within a month the day groups are processed in ascending date
\* order; the index of the month is written only after every day group of
\* the month was processed.
C11_AscendingOrderOfDays ==
    /\ MonthsInOrder
    /\ \A i, j \in 1..Len(log) :
           (/\ i < j
            /\ log[i].what \in {"saved", "failed"}
            /\ log[j].what \in {"saved", "failed"}
            /\ MonthOf(log[i]) = MonthOf(log[j])) =>
               TupleLess(log[i].key, log[j].key)

====
